---- MODULE Spec2Model ----
(***************************************************************************)
(* A model of the utility functions of rust_xlsxwriter (src/utility.rs):   *)
(* the column codec, the cell and range formatters, the sheet name quoter  *)
(* and validator and the worksheet password hash.                          *)
(*                                                                         *)
(* A Rust string is modelled as the sequence of its Unicode scalar values  *)
(* (its chars()); as_bytes() is modelled by the UTF-8 encoding of that     *)
(* sequence.  The functions are pure: a specification draws the arguments  *)
(* of a call in its initial state and each action is one call.             *)
(***************************************************************************)
EXTENDS Integers, Sequences, FiniteSets, TLC

VARIABLES
    overflow_checks, \* build profile: TRUE = arithmetic overflow panics, FALSE = it wraps
    pc,              \* which calls have been made so far
    col_num,         \* argument: first_col / col_num
    row_num,         \* argument: first_row / row_num
    last_col,        \* argument: last_col
    last_row,        \* argument: last_row
    column,          \* argument: the column name given to column_name_to_number
    sheetname,       \* argument: the sheet name
    message,         \* argument: the label given to validate_sheetname
    password,        \* argument: the password given to hash_password
    string,          \* argument: the string given to pixel_width
    str_out,         \* the String a call returned
    num_out,         \* the number a call returned
    err_out          \* the Result a call returned

vars == <<overflow_checks, pc, col_num, row_num, last_col, last_row, column,
          sheetname, message, password, string, str_out, num_out, err_out>>

(***************************************************************************)
(* Bounds of the model.                                                    *)
(***************************************************************************)
MaxCol == 16384
MaxRow == 1048576
\* The cell formatters are applied to the ColSpan + 1 first and last columns
\* and the RowSpan + 1 first and last rows, and to the columns and rows where
\* the name or the numeral gains a letter or a digit.
ColSpan == 12
RowSpan == 12
\* The range formatters are applied to the RangeSpan + 1 first columns and
\* rows and to a few columns and rows further on.
RangeSpan == 1
\* Sheet names are every string of at most QuoteLen of the characters that
\* quoting looks at, and a run of PadLens equal characters between at most
\* one leading and one trailing character; the runs have at most PadSpan
\* characters or are within PadSpan of the length limit.
QuoteLen == 4
PadSpan == 2
\* Passwords are every string of at most MaxPwLen of a few characters of one
\* to three bytes, the runs of equal characters of up to MaxPwBytes bytes
\* and the passwords of the tests.
MaxPwLen == 3
MaxPwBytes == 32
\* pixel_width is applied to every string of one character, to every string
\* of at most MaxPixelLen of a few narrow, wide and unlisted characters, to
\* the runs of up to MaxPixelRun equal characters and to the strings of the
\* tests.
MaxPixelLen == 3
MaxPixelRun == 12
\* The formatters are also applied to the TotalSpan + 1 first and last values
\* of the column type.
TotalSpan == 3
\* column_name_to_number is also applied to every string of at most
\* MaxColumnLen letters, digits and other characters.
MaxColumnLen == 3

(***************************************************************************)
(* Integer types.                                                          *)
(***************************************************************************)
U16Modulus == 65536

\* The value a call yields when it panics: no String holds it.
PanicStr == << -1 >>
\* The number a call yields when it panics: no u16 or u32 equals it.
PanicNum == 0 - 1

\* a op b in u16, where exact is the mathematical result: a panic under
\* overflow checks, the wrapped value otherwise.
WrapU16(exact, checks) ==
    IF exact >= 0 /\ exact < U16Modulus THEN exact
    ELSE IF checks THEN PanicNum
    ELSE exact % U16Modulus

(***************************************************************************)
(* Characters used by the code.                                            *)
(***************************************************************************)
ChA == 65
ChZ == 90
Ch0 == 48
ChDollar == 36
ChColon == 58
ChBang == 33
ChSpace == 32
ChApostrophe == 39

(***************************************************************************)
(* column_number_to_name                                                   *)
(***************************************************************************)
\* The while loop: col_num is the 1-based remaining value, col_name the
\* letters accumulated so far, right to left.
RECURSIVE ColumnNameLoopNoRemap(_, _)
ColumnNameLoopNoRemap(n, col_name) ==
    IF n > 0
    THEN ColumnNameLoopNoRemap(n \div 26, << 64 + (n % 26) >> \o col_name)
    ELSE col_name

RECURSIVE ColumnNameLoopNoDecrement(_, _)
ColumnNameLoopNoDecrement(n, col_name) ==
    IF n > 0
    THEN LET remainder  == IF n % 26 = 0 THEN 26 ELSE n % 26
             col_letter == 64 + remainder
         IN  ColumnNameLoopNoDecrement(n \div 26, << col_letter >> \o col_name)
    ELSE col_name

RECURSIVE ColumnNameLoop(_, _)
ColumnNameLoop(n, col_name) ==
    IF n > 0
    THEN LET remainder  == IF n % 26 = 0 THEN 26 ELSE n % 26
             col_letter == 64 + remainder
         IN  ColumnNameLoop((n - 1) \div 26, << col_letter >> \o col_name)
    ELSE col_name

column_number_to_name(col, checks) ==
    LET n == WrapU16(col + 1, checks)
    IN  IF n = PanicNum THEN PanicStr ELSE ColumnNameLoop(n, << >>)

(***************************************************************************)
(* column_name_to_number                                                   *)
(***************************************************************************)
\* One iteration of the for loop: (col_num * 26) + (char as u16 - 'A' as u16 + 1)
ColumnNumberStep(acc, char, checks) ==
    LET prod  == WrapU16(acc * 26, checks)
        diff  == WrapU16((char % U16Modulus) - ChA, checks)
        digit == IF diff = PanicNum THEN PanicNum ELSE WrapU16(diff + 1, checks)
    IN  IF prod = PanicNum \/ digit = PanicNum THEN PanicNum
        ELSE WrapU16(prod + digit, checks)

RECURSIVE ColumnNumberLoop(_, _, _)
ColumnNumberLoop(acc, chars, checks) ==
    IF chars = << >> \/ acc = PanicNum THEN acc
    ELSE ColumnNumberLoop(ColumnNumberStep(acc, Head(chars), checks), Tail(chars), checks)

column_name_to_number_keep_one(name, checks) ==
    ColumnNumberLoop(0, name, checks)

column_name_to_number(name, checks) ==
    LET acc == ColumnNumberLoop(0, name, checks)
    IN  IF acc = PanicNum THEN PanicNum ELSE WrapU16(acc - 1, checks)

(***************************************************************************)
(* row_col_to_cell, row_col_to_cell_absolute                               *)
(***************************************************************************)
\* Display of an unsigned integer: its decimal digits.
RECURSIVE ToDecimal(_)
ToDecimal(n) ==
    IF n < 10 THEN << Ch0 + n >>
    ELSE ToDecimal(n \div 10) \o << Ch0 + (n % 10) >>

row_col_to_cell_zero_based(row, col, checks) ==
    LET name == column_number_to_name(col, checks)
    IN  IF name = PanicStr THEN PanicStr ELSE name \o ToDecimal(row)

\* Rows are u32; the model keeps them far below 2^32 - 1, so row_num + 1
\* is exact.
row_col_to_cell(row, col, checks) ==
    LET name == column_number_to_name(col, checks)
    IN  IF name = PanicStr THEN PanicStr ELSE name \o ToDecimal(row + 1)

row_col_to_cell_absolute(row, col, checks) ==
    LET name == column_number_to_name(col, checks)
    IN  IF name = PanicStr THEN PanicStr
        ELSE << ChDollar >> \o name \o << ChDollar >> \o ToDecimal(row + 1)

(***************************************************************************)
(* cell_range, cell_range_absolute                                         *)
(***************************************************************************)
cell_range_same_column(first_row, first_col, end_row, end_col, checks) ==
    LET range1 == row_col_to_cell(first_row, first_col, checks)
        range2 == row_col_to_cell(end_row, end_col, checks)
    IN  IF range1 = PanicStr \/ range2 = PanicStr THEN PanicStr
        ELSE IF first_col = end_col THEN range1
        ELSE range1 \o << ChColon >> \o range2

cell_range(first_row, first_col, end_row, end_col, checks) ==
    LET range1 == row_col_to_cell(first_row, first_col, checks)
        range2 == row_col_to_cell(end_row, end_col, checks)
    IN  IF range1 = PanicStr \/ range2 = PanicStr THEN PanicStr
        ELSE IF range1 = range2 THEN range1
        ELSE range1 \o << ChColon >> \o range2

cell_range_absolute(first_row, first_col, end_row, end_col, checks) ==
    LET range1 == row_col_to_cell_absolute(first_row, first_col, checks)
        range2 == row_col_to_cell_absolute(end_row, end_col, checks)
    IN  IF range1 = PanicStr \/ range2 = PanicStr THEN PanicStr
        ELSE IF range1 = range2 THEN range1
        ELSE range1 \o << ChColon >> \o range2

(***************************************************************************)
(* quote_sheetname                                                         *)
(***************************************************************************)
\* str::contains(char)
Contains(s, ch) == \E i \in 1 .. Len(s) : s[i] = ch

\* str::starts_with(char), str::ends_with(char)
StartsWith(s, ch) == Len(s) > 0 /\ s[1] = ch
EndsWith(s, ch) == Len(s) > 0 /\ s[Len(s)] = ch

\* sheetname.replace('\'', "''")
RECURSIVE DoubleApostrophes(_)
DoubleApostrophes(s) ==
    IF s = << >> THEN << >>
    ELSE (IF Head(s) = ChApostrophe THEN << ChApostrophe, ChApostrophe >>
                                    ELSE << Head(s) >>)
         \o DoubleApostrophes(Tail(s))

quote_sheetname_requote(name) ==
    LET doubled == DoubleApostrophes(name)
    IN  IF Contains(doubled, ChSpace) \/ Contains(doubled, ChBang)
           \/ Contains(doubled, ChApostrophe)
        THEN << ChApostrophe >> \o doubled \o << ChApostrophe >>
        ELSE doubled

quote_sheetname_no_doubling(name) ==
    IF ~ StartsWith(name, ChApostrophe)
    THEN IF Contains(name, ChSpace) \/ Contains(name, ChBang)
            \/ Contains(name, ChApostrophe)
         THEN << ChApostrophe >> \o name \o << ChApostrophe >>
         ELSE name
    ELSE name

quote_sheetname(name) ==
    IF ~ StartsWith(name, ChApostrophe)
    THEN LET doubled == DoubleApostrophes(name)
         IN  IF Contains(doubled, ChSpace) \/ Contains(doubled, ChBang)
                \/ Contains(doubled, ChApostrophe)
             THEN << ChApostrophe >> \o doubled \o << ChApostrophe >>
             ELSE doubled
    ELSE name

(***************************************************************************)
(* validate_sheetname                                                      *)
(***************************************************************************)
MaxSheetnameLen == 31

\* '*', '?', ':', '[', ']', '\\', '/'
InvalidChars == {42, 63, 58, 91, 93, 92, 47}

\* The number of bytes of the UTF-8 encoding of a character.
Utf8Len(ch) ==
    IF ch < 128 THEN 1 ELSE IF ch < 2048 THEN 2 ELSE IF ch < 65536 THEN 3 ELSE 4

RECURSIVE ByteLen(_)
ByteLen(s) == IF s = << >> THEN 0 ELSE Utf8Len(Head(s)) + ByteLen(Tail(s))

Ok == [variant |-> "Ok", message |-> << >>]
Err(variant, label) == [variant |-> variant, message |-> label]

validate_sheetname_byte_length(name, label) ==
    IF name = << >> THEN Err("SheetnameCannotBeBlank", label)
    ELSE IF ByteLen(name) > MaxSheetnameLen
    THEN Err("SheetnameLengthExceeded", label)
    ELSE IF \E ch \in InvalidChars : Contains(name, ch)
    THEN Err("SheetnameContainsInvalidCharacter", label)
    ELSE IF StartsWith(name, ChApostrophe) \/ EndsWith(name, ChApostrophe)
    THEN Err("SheetnameStartsOrEndsWithApostrophe", label)
    ELSE Ok

validate_sheetname_apostrophe_first(name, label) ==
    IF name = << >> THEN Err("SheetnameCannotBeBlank", label)
    ELSE IF Len(name) > MaxSheetnameLen
    THEN Err("SheetnameLengthExceeded", label)
    ELSE IF StartsWith(name, ChApostrophe) \/ EndsWith(name, ChApostrophe)
    THEN Err("SheetnameStartsOrEndsWithApostrophe", label)
    ELSE IF \E ch \in InvalidChars : Contains(name, ch)
    THEN Err("SheetnameContainsInvalidCharacter", label)
    ELSE Ok

validate_sheetname(name, label) ==
    IF name = << >> THEN Err("SheetnameCannotBeBlank", label)
    ELSE IF Len(name) > MaxSheetnameLen
    THEN Err("SheetnameLengthExceeded", label)
    ELSE IF \E ch \in InvalidChars : Contains(name, ch)
    THEN Err("SheetnameContainsInvalidCharacter", label)
    ELSE IF StartsWith(name, ChApostrophe) \/ EndsWith(name, ChApostrophe)
    THEN Err("SheetnameStartsOrEndsWithApostrophe", label)
    ELSE Ok

(***************************************************************************)
(* chart_range_abs                                                         *)
(***************************************************************************)
chart_range_abs_unquoted(sheet, first_row, first_col, end_row, end_col, checks) ==
    LET range1 == row_col_to_cell_absolute(first_row, first_col, checks)
        range2 == row_col_to_cell_absolute(end_row, end_col, checks)
    IN  IF range1 = PanicStr \/ range2 = PanicStr THEN PanicStr
        ELSE IF range1 = range2 THEN sheet \o << ChBang >> \o range1
        ELSE sheet \o << ChBang >> \o range1 \o << ChColon >> \o range2

chart_range_abs(sheet, first_row, first_col, end_row, end_col, checks) ==
    LET quoted == quote_sheetname(sheet)
        range1 == row_col_to_cell_absolute(first_row, first_col, checks)
        range2 == row_col_to_cell_absolute(end_row, end_col, checks)
    IN  IF range1 = PanicStr \/ range2 = PanicStr THEN PanicStr
        ELSE IF range1 = range2 THEN quoted \o << ChBang >> \o range1
        ELSE quoted \o << ChBang >> \o range1 \o << ChColon >> \o range2

(***************************************************************************)
(* hash_password                                                           *)
(***************************************************************************)
\* Bitwise operators on u16 values: bit i of a, and the three operators
\* bit by bit.
BitOf(a, i) == (a \div (2 ^ i)) % 2

BitAnd(a, b) ==
    LET bit(i) == IF BitOf(a, i) = 1 /\ BitOf(b, i) = 1 THEN 2 ^ i ELSE 0
    IN  (((bit(0) + bit(1)) + (bit(2) + bit(3)))
          + ((bit(4) + bit(5)) + (bit(6) + bit(7))))
        + (((bit(8) + bit(9)) + (bit(10) + bit(11)))
          + ((bit(12) + bit(13)) + (bit(14) + bit(15))))

BitOr(a, b) ==
    LET bit(i) == IF BitOf(a, i) = 1 \/ BitOf(b, i) = 1 THEN 2 ^ i ELSE 0
    IN  (((bit(0) + bit(1)) + (bit(2) + bit(3)))
          + ((bit(4) + bit(5)) + (bit(6) + bit(7))))
        + (((bit(8) + bit(9)) + (bit(10) + bit(11)))
          + ((bit(12) + bit(13)) + (bit(14) + bit(15))))

BitXor(a, b) ==
    LET bit(i) == IF BitOf(a, i) # BitOf(b, i) THEN 2 ^ i ELSE 0
    IN  (((bit(0) + bit(1)) + (bit(2) + bit(3)))
          + ((bit(4) + bit(5)) + (bit(6) + bit(7))))
        + (((bit(8) + bit(9)) + (bit(10) + bit(11)))
          + ((bit(12) + bit(13)) + (bit(14) + bit(15))))

\* hash >> n and hash << n in u16; a left shift drops the bits shifted out.
ShrU16(a, n) == a \div (2 ^ n)
ShlU16(a, n) == (a * (2 ^ n)) % U16Modulus

\* str::as_bytes: the UTF-8 encoding.
Utf8(ch) ==
    IF ch < 128 THEN << ch >>
    ELSE IF ch < 2048 THEN << 192 + (ch \div 64), 128 + (ch % 64) >>
    ELSE IF ch < 65536
    THEN << 224 + (ch \div 4096), 128 + ((ch \div 64) % 64), 128 + (ch % 64) >>
    ELSE << 240 + (ch \div 262144), 128 + ((ch \div 4096) % 64),
            128 + ((ch \div 64) % 64), 128 + (ch % 64) >>

RECURSIVE AsBytes(_)
AsBytes(s) == IF s = << >> THEN << >> ELSE Utf8(Head(s)) \o AsBytes(Tail(s))

HashRotateNoMask(hash) ==
    BitOr(BitAnd(ShrU16(hash, 14), 1), ShlU16(hash, 1))

\* hash = ((hash >> 14) & 0x01) | ((hash << 1) & 0x7fff)
HashRotate(hash) ==
    BitOr(BitAnd(ShrU16(hash, 14), 1), BitAnd(ShlU16(hash, 1), 32767))

\* The body of the for loop; hash is a u16.
HashStep(hash, byte) ==
    IF hash \in 0 .. U16Modulus - 1
    THEN BitXor(HashRotate(hash), byte)
    ELSE PanicNum

\* The for loop over the bytes, last byte first: the hash once the bytes
\* n, n + 1, .., Len(bytes) have been taken.
RECURSIVE HashLoopForward(_, _)
HashLoopForward(bytes, n) ==
    IF n > Len(bytes) THEN 0
    ELSE HashStep(HashLoopForward(bytes, n + 1), bytes[Len(bytes) + 1 - n])

RECURSIVE HashLoop(_, _)
HashLoop(bytes, n) ==
    IF n > Len(bytes) THEN 0
    ELSE HashStep(HashLoop(bytes, n + 1), bytes[n])

\* The hash, given the bytes of the password: password.is_empty() is
\* Len(bytes) = 0 and password.len() is Len(bytes).
HashOfBytes(bytes) ==
    IF Len(bytes) = 0 THEN 0
    ELSE BitXor(BitXor(HashRotate(HashLoop(bytes, 1)), Len(bytes) % U16Modulus),
                52811)

hash_password(pw) == HashOfBytes(AsBytes(pw))

(***************************************************************************)
(* pixel_width                                                             *)
(***************************************************************************)
\* The characters of each arm of the match, by the width the arm adds.
Width3 ==
    {32, 39}

Width4 ==
    {44, 46, 58, 59, 73, 96, 105, 106, 108}

Width5 ==
    {33, 40, 41, 45, 74, 91, 93, 102, 114, 116, 123, 125}

Width6 ==
    {34, 47, 76, 92, 99, 115, 122}

Width7 ==
    {35, 36, 42, 43, 48, 49, 50, 51, 52, 53, 54, 55, 56, 57, 60, 61, 62,
     63, 69, 70, 83, 84, 89, 90, 94, 95, 97, 103, 107, 118, 120, 121, 124,
     126}

Width8 ==
    {66, 67, 75, 80, 82, 88, 98, 100, 101, 104, 110, 111, 112, 113, 117}

Width9 ==
    {65, 68, 71, 72, 85, 86}

Width10 ==
    {38, 78, 79, 81}

Width11 ==
    {37, 119}

Width12 ==
    {77, 109}

Width13 ==
    {64, 87}

CharWidthDefaultZero(ch) ==
    CASE ch \in Width3 -> 3
      [] ch \in Width4 -> 4
      [] ch \in Width5 -> 5
      [] ch \in Width6 -> 6
      [] ch \in Width7 -> 7
      [] ch \in Width8 -> 8
      [] ch \in Width9 -> 9
      [] ch \in Width10 -> 10
      [] ch \in Width11 -> 11
      [] ch \in Width12 -> 12
      [] ch \in Width13 -> 13
      [] OTHER -> 0

\* The match: the width a character adds.
CharWidth(ch) ==
    CASE ch \in Width3 -> 3
      [] ch \in Width4 -> 4
      [] ch \in Width5 -> 5
      [] ch \in Width6 -> 6
      [] ch \in Width7 -> 7
      [] ch \in Width8 -> 8
      [] ch \in Width9 -> 9
      [] ch \in Width10 -> 10
      [] ch \in Width11 -> 11
      [] ch \in Width12 -> 12
      [] ch \in Width13 -> 13
      [] OTHER -> 8

PixelAddAssign(length, ch, checks) ==
    IF length = PanicNum THEN PanicNum ELSE WrapU16(CharWidth(ch), checks)

\* length += width, in u16.
PixelAdd(length, ch, checks) ==
    IF length = PanicNum THEN PanicNum ELSE WrapU16(length + CharWidth(ch), checks)

\* The for loop: length after the first n characters.
RECURSIVE PixelLoop(_, _, _)
PixelLoop(s, n, checks) ==
    IF n = 0 THEN 0
    ELSE PixelAdd(PixelLoop(s, n - 1, checks), s[n], checks)

pixel_width(s, checks) == PixelLoop(s, Len(s), checks)

(***************************************************************************)
(* The column codec as a state machine.                                    *)
(***************************************************************************)
Letters == ChA .. ChZ

\* Every name of one to three uppercase letters.
LetterNames ==
    { << a >> : a \in Letters }
    \cup { << a, b >> : a \in Letters, b \in Letters }
    \cup { << a, b, c >> : a \in Letters, b \in Letters, c \in Letters }

NoResult ==
    /\ str_out = << >> /\ num_out = 0
    /\ err_out = [variant |-> "none", message |-> << >>]

InitCol ==
    /\ overflow_checks \in BOOLEAN
    /\ row_num = 0 /\ last_col = 0 /\ last_row = 0
    /\ sheetname = << >> /\ message = << >> /\ password = << >> /\ string = << >>
    /\ NoResult
    /\ \/ pc = "number" /\ col_num \in 0 .. MaxCol /\ column = << >>
       \/ pc = "name" /\ column \in LetterNames /\ col_num = 0

\* A call of column_number_to_name, on the argument or on the number that
\* column_name_to_number returned.
ColumnNumberToName ==
    /\ pc \in {"number", "name_number"}
    /\ pc = "name_number" => num_out # PanicNum
    /\ str_out' = column_number_to_name(IF pc = "number" THEN col_num ELSE num_out,
                                        overflow_checks)
    /\ pc' = IF pc = "number" THEN "number_name" ELSE "name_number_name"
    /\ UNCHANGED <<overflow_checks, col_num, row_num, last_col, last_row, column,
                   sheetname, message, password, string,
                   num_out, err_out>>

\* A call of column_name_to_number, on the argument or on the name that
\* column_number_to_name returned.
ColumnNameToNumber ==
    /\ pc \in {"name", "number_name"}
    /\ pc = "number_name" => str_out # PanicStr
    /\ num_out' = column_name_to_number(IF pc = "name" THEN column ELSE str_out,
                                        overflow_checks)
    /\ pc' = IF pc = "name" THEN "name_number" ELSE "number_name_number"
    /\ UNCHANGED <<overflow_checks, col_num, row_num, last_col, last_row, column,
                   sheetname, message, password, string,
                   str_out, err_out>>

NextCol == ColumnNumberToName \/ ColumnNameToNumber

SpecCol == InitCol /\ [][NextCol]_vars

(***************************************************************************)
(* Properties of the column codec.                                         *)
(***************************************************************************)
\* C1: for every column 0..=16384, converting the column to its name and the
\* name back to a number gives the column again.
C1_RoundTripNumber ==
    (pc = "number_name_number" /\ col_num \in 0 .. MaxCol) => num_out = col_num

C1_Witness ==
    /\ pc = "number_name_number" /\ col_num = 16384
    /\ str_out = << 88, 70, 69 >> /\ num_out = 16384

\* The value of a numeral over the digits 'A' = 1 .. 'Z' = 26, most
\* significant letter first.
RECURSIVE BijectiveValue(_)
BijectiveValue(name) ==
    IF name = << >> THEN 0
    ELSE (Head(name) - 64) * 26 ^ (Len(name) - 1) + BijectiveValue(Tail(name))

\* C2: the name of a column 0..=16384 is the bijective base-26 numeral of
\* col+1 over 'A'..'Z', most significant letter first: one letter up to 25,
\* two up to 701, three from 702 on; 0 -> A, 25 -> Z, 26 -> AA, 702 -> AAA,
\* 16383 -> XFD, 16384 -> XFE.
C2_BijectiveNumeral ==
    (pc = "number_name" /\ col_num \in 0 .. MaxCol) =>
        /\ \A i \in 1 .. Len(str_out) : str_out[i] \in ChA .. ChZ
        /\ BijectiveValue(str_out) = col_num + 1
        /\ Len(str_out) = IF col_num <= 25 THEN 1 ELSE IF col_num <= 701 THEN 2 ELSE 3
        /\ col_num = 0 => str_out = << 65 >>
        /\ col_num = 25 => str_out = << 90 >>
        /\ col_num = 26 => str_out = << 65, 65 >>
        /\ col_num = 702 => str_out = << 65, 65, 65 >>
        /\ col_num = 16383 => str_out = << 88, 70, 68 >>
        /\ col_num = 16384 => str_out = << 88, 70, 69 >>

C2_Witness ==
    pc = "number_name" /\ col_num = 701 /\ str_out = << 90, 90 >>

\* a comes before b, or is b, in the order "A", .., "Z", "AA", .., "ZZ", "AAA", ..
NameLeq(a, b) ==
    \/ Len(a) < Len(b)
    \/ /\ Len(a) = Len(b)
       /\ \/ a = b
          \/ \E i \in 1 .. Len(a) :
                /\ a[i] < b[i]
                /\ \A j \in 1 .. i - 1 : a[j] = b[j]

LastColumnName == << 88, 70, 69 >>

\* C3: for every name "A" .. "XFE", converting the name to a number and the
\* number back to a name gives the name again.
C3_RoundTripName ==
    (pc = "name_number_name" /\ NameLeq(column, LastColumnName)) => str_out = column

C3_Witness ==
    /\ pc = "name_number_name" /\ column = << 88, 70, 69 >>
    /\ num_out = 16384 /\ str_out = column

(***************************************************************************)
(* The cell formatters as a state machine.                                 *)
(***************************************************************************)
CellCols ==
    (0 .. ColSpan) \cup (MaxCol - ColSpan .. MaxCol)
    \cup {24, 25, 26, 27, 254, 255, 256, 700, 701, 702, 703}

CellRows ==
    (0 .. RowSpan) \cup (MaxRow - RowSpan .. MaxRow)
    \cup {98, 99, 100, 998, 999, 1000, 9998, 9999, 10000,
          99998, 99999, 100000, 999998, 999999, 1000000}

InitCell ==
    /\ overflow_checks \in BOOLEAN
    /\ pc = "cell"
    /\ row_num \in CellRows /\ col_num \in CellCols
    /\ last_col = 0 /\ last_row = 0
    /\ column = << >> /\ sheetname = << >> /\ message = << >> /\ password = << >> /\ string = << >>
    /\ NoResult

RowColToCell ==
    /\ pc = "cell"
    /\ str_out' = row_col_to_cell(row_num, col_num, overflow_checks)
    /\ pc' = "row_col_to_cell"
    /\ UNCHANGED <<overflow_checks, col_num, row_num, last_col, last_row, column,
                   sheetname, message, password, string,
                   num_out, err_out>>

RowColToCellAbsolute ==
    /\ pc = "cell"
    /\ str_out' = row_col_to_cell_absolute(row_num, col_num, overflow_checks)
    /\ pc' = "row_col_to_cell_absolute"
    /\ UNCHANGED <<overflow_checks, col_num, row_num, last_col, last_row, column,
                   sheetname, message, password, string,
                   num_out, err_out>>

NextCell == RowColToCell \/ RowColToCellAbsolute

SpecCell == InitCell /\ [][NextCell]_vars

\* The number a decimal numeral denotes.
RECURSIVE DecimalValue(_)
DecimalValue(digits) ==
    IF digits = << >> THEN 0
    ELSE DecimalValue(SubSeq(digits, 1, Len(digits) - 1)) * 10
         + (digits[Len(digits)] - Ch0)

\* digits is the decimal numeral of n, without a leading zero.
IsNumeralOf(digits, n) ==
    /\ Len(digits) >= 1
    /\ \A i \in 1 .. Len(digits) : digits[i] \in Ch0 .. Ch0 + 9
    /\ digits[1] # Ch0
    /\ DecimalValue(digits) = n

\* C4: for rows 0..=1048576 and columns 0..=16384, row_col_to_cell is the
\* column name (1 to 3 uppercase letters) followed by the decimal numeral of
\* row+1 without a leading zero, and row_col_to_cell_absolute is the same
\* two parts, each after a '$'; (0,0) -> "A1", absolute (1,1) -> "$B$2".
C4_CellReference ==
    LET name == column_number_to_name(col_num, overflow_checks)
        k    == Len(name)
    IN  /\ pc = "row_col_to_cell" =>
            /\ k \in 1 .. 3
            /\ \A i \in 1 .. k : name[i] \in ChA .. ChZ
            /\ Len(str_out) > k
            /\ SubSeq(str_out, 1, k) = name
            /\ IsNumeralOf(SubSeq(str_out, k + 1, Len(str_out)), row_num + 1)
            /\ (row_num = 0 /\ col_num = 0) => str_out = << 65, 49 >>
        /\ pc = "row_col_to_cell_absolute" =>
            /\ k \in 1 .. 3
            /\ \A i \in 1 .. k : name[i] \in ChA .. ChZ
            /\ Len(str_out) > k + 2
            /\ str_out[1] = ChDollar
            /\ SubSeq(str_out, 2, k + 1) = name
            /\ str_out[k + 2] = ChDollar
            /\ IsNumeralOf(SubSeq(str_out, k + 3, Len(str_out)), row_num + 1)
            /\ (row_num = 1 /\ col_num = 1) => str_out = << 36, 66, 36, 50 >>

C4_Witness ==
    /\ pc = "row_col_to_cell_absolute" /\ row_num = 1048576 /\ col_num = 16384
    /\ str_out = << 36, 88, 70, 69, 36, 49, 48, 52, 56, 53, 55, 55 >>

(***************************************************************************)
(* The range formatters as a state machine.                                *)
(***************************************************************************)
RangeCols == (0 .. RangeSpan) \cup {24, 26, MaxCol}

RangeRows == (0 .. RangeSpan) \cup {9, 10, MaxRow}

\* "Sheet1", "Sheet 5", "Sheet'7", "'Sheet4'", "a!b", "a:b" and "".
RangeSheets ==
    { << 83, 104, 101, 101, 116, 49 >>,
      << 83, 104, 101, 101, 116, 32, 53 >>,
      << 83, 104, 101, 101, 116, 39, 55 >>,
      << 39, 83, 104, 101, 101, 116, 52, 39 >>,
      << 97, 33, 98 >>,
      << 97, 58, 98 >>,
      << >> }

InitRange ==
    /\ overflow_checks \in BOOLEAN
    /\ \/ pc = "range" /\ sheetname = << >>
       \/ pc = "chart" /\ sheetname \in RangeSheets
    /\ row_num \in RangeRows /\ col_num \in RangeCols
    /\ last_row \in RangeRows /\ last_col \in RangeCols
    /\ column = << >> /\ message = << >> /\ password = << >> /\ string = << >>
    /\ NoResult

CellRange ==
    /\ pc = "range"
    /\ str_out' = cell_range(row_num, col_num, last_row, last_col, overflow_checks)
    /\ pc' = "cell_range"
    /\ UNCHANGED <<overflow_checks, col_num, row_num, last_col, last_row, column,
                   sheetname, message, password, string,
                   num_out, err_out>>

CellRangeAbsolute ==
    /\ pc = "range"
    /\ str_out' = cell_range_absolute(row_num, col_num, last_row, last_col,
                                      overflow_checks)
    /\ pc' = "cell_range_absolute"
    /\ UNCHANGED <<overflow_checks, col_num, row_num, last_col, last_row, column,
                   sheetname, message, password, string,
                   num_out, err_out>>

ChartRangeAbs ==
    /\ pc = "chart"
    /\ str_out' = chart_range_abs(sheetname, row_num, col_num, last_row, last_col,
                                  overflow_checks)
    /\ pc' = "chart_range_abs"
    /\ UNCHANGED <<overflow_checks, col_num, row_num, last_col, last_row, column,
                   sheetname, message, password, string,
                   num_out, err_out>>

NextRange == CellRange \/ CellRangeAbsolute \/ ChartRangeAbs

SpecRange == InitRange /\ [][NextRange]_vars

SameCell == row_num = last_row /\ col_num = last_col

\* C5: cell_range and cell_range_absolute return a single reference without
\* ':' exactly when the two coordinates are equal, and otherwise the first
\* reference, ':', the second reference, in the order given;
\* (9,0,1,24) -> "A10:Y2".
C5_RangeCollapse ==
    LET rel1 == row_col_to_cell(row_num, col_num, overflow_checks)
        rel2 == row_col_to_cell(last_row, last_col, overflow_checks)
        abs1 == row_col_to_cell_absolute(row_num, col_num, overflow_checks)
        abs2 == row_col_to_cell_absolute(last_row, last_col, overflow_checks)
    IN  /\ pc = "cell_range" =>
            /\ SameCell <=> ~ Contains(str_out, ChColon)
            /\ SameCell => str_out = rel1
            /\ ~ SameCell => str_out = rel1 \o << ChColon >> \o rel2
            /\ (row_num = 9 /\ col_num = 0 /\ last_row = 1 /\ last_col = 24)
                 => str_out = << 65, 49, 48, 58, 89, 50 >>
            /\ (rel1 = rel2) <=> SameCell
        /\ pc = "cell_range_absolute" =>
            /\ SameCell <=> ~ Contains(str_out, ChColon)
            /\ SameCell => str_out = abs1
            /\ ~ SameCell => str_out = abs1 \o << ChColon >> \o abs2
            /\ (abs1 = abs2) <=> SameCell

C5_Witness ==
    /\ pc = "cell_range" /\ row_num = 9 /\ col_num = 0 /\ last_row = 1 /\ last_col = 24
    /\ str_out = << 65, 49, 48, 58, 89, 50 >>

\* C6: chart_range_abs is the quoted sheet name, '!', and the absolute
\* range; when both endpoints are the same cell the result is the quoted
\* name, '!' and that one cell.
C6_ChartRange ==
    pc = "chart_range_abs" =>
        /\ str_out = quote_sheetname(sheetname) \o << ChBang >>
                     \o cell_range_absolute(row_num, col_num, last_row, last_col,
                                            overflow_checks)
        /\ SameCell => str_out = quote_sheetname(sheetname) \o << ChBang >>
                                 \o row_col_to_cell_absolute(row_num, col_num,
                                                             overflow_checks)
        /\ (SameCell /\ row_num = 0 /\ col_num = 0
              /\ sheetname = << 83, 104, 101, 101, 116, 49 >>)
             => str_out = << 83, 104, 101, 101, 116, 49, 33, 36, 65, 36, 49 >>

C6_Witness ==
    /\ pc = "chart_range_abs" /\ SameCell /\ row_num = 0 /\ col_num = 0
    /\ sheetname = << 83, 104, 101, 101, 116, 32, 53 >>
    /\ str_out = << 39, 83, 104, 101, 101, 116, 32, 53, 39, 33, 36, 65, 36, 49 >>

(***************************************************************************)
(* The sheet name quoter and validator as a state machine.                 *)
(***************************************************************************)
\* 'a', the apostrophe, the space and '!'
QuoteChars == {97, ChApostrophe, ChSpace, ChBang}

\* 'a', 'e' with an acute accent (two bytes in UTF-8), the apostrophe, the
\* space and the characters a sheet name may not contain.
EdgeChars == {97, 233, ChApostrophe, ChSpace} \cup InvalidChars

\* 'a', 'e' with an acute accent, the apostrophe and '*'
PadChars == {97, 233, ChApostrophe, 42}

PadLens ==
    (0 .. PadSpan)
    \cup (MaxSheetnameLen - PadSpan - 1 .. MaxSheetnameLen + PadSpan)

StringsUpTo(chars, n) == UNION { [1 .. k -> chars] : k \in 0 .. n }

Pad(ch, k) == [i \in 1 .. k |-> ch]

SheetNames ==
    StringsUpTo(QuoteChars, QuoteLen)
    \cup { pre \o Pad(ch, k) \o suf :
             pre \in StringsUpTo(EdgeChars, 1), suf \in StringsUpTo(EdgeChars, 1),
             ch \in PadChars, k \in PadLens }
    \cup RangeSheets

\* "worksheet.set_name()" abbreviated to "w", "workbook.worksheet_from_name()" to "wb"
Messages == { << 119 >>, << 119, 98 >> }

InitSheet ==
    /\ overflow_checks \in BOOLEAN
    /\ sheetname \in SheetNames
    /\ \/ pc = "quote" /\ message = << >>
       \/ pc = "validate" /\ message \in Messages
    /\ col_num = 0 /\ row_num = 0 /\ last_col = 0 /\ last_row = 0
    /\ column = << >> /\ password = << >> /\ string = << >>
    /\ NoResult

QuoteSheetname ==
    /\ pc = "quote"
    /\ str_out' = quote_sheetname(sheetname)
    /\ pc' = "quote_sheetname"
    /\ UNCHANGED <<overflow_checks, col_num, row_num, last_col, last_row, column,
                   sheetname, message, password, string,
                   num_out, err_out>>

ValidateSheetname ==
    /\ pc = "validate"
    /\ err_out' = validate_sheetname(sheetname, message)
    /\ pc' = "validate_sheetname"
    /\ UNCHANGED <<overflow_checks, col_num, row_num, last_col, last_row, column,
                   sheetname, message, password, string,
                   str_out, num_out>>

NextSheet == QuoteSheetname \/ ValidateSheetname

SpecSheet == InitSheet /\ [][NextSheet]_vars

\* The number of apostrophes among the first n characters of s.
RECURSIVE ApostrophesBefore(_, _)
ApostrophesBefore(s, n) ==
    IF n = 0 THEN 0
    ELSE ApostrophesBefore(s, n - 1) + (IF s[n] = ChApostrophe THEN 1 ELSE 0)

\* t is s with every apostrophe replaced by two apostrophes: character i of
\* s is found in t after the characters before it and one more apostrophe
\* for each apostrophe before it, and an apostrophe is followed by its twin.
IsDoubled(t, s) ==
    /\ Len(t) = Len(s) + ApostrophesBefore(s, Len(s))
    /\ \A i \in 1 .. Len(s) :
         LET at == i + ApostrophesBefore(s, i - 1)
         IN  /\ t[at] = s[i]
             /\ s[i] = ChApostrophe => t[at + 1] = ChApostrophe

NeedsQuotes(s) ==
    \E i \in 1 .. Len(s) : s[i] \in {ChSpace, ChBang, ChApostrophe}

\* C7: quote_sheetname returns a name that starts with an apostrophe
\* unchanged; otherwise it doubles every apostrophe and wraps the result in
\* one pair of apostrophes exactly when the name contains a space, a '!' or
\* an apostrophe, and returns the name unchanged when it contains none;
\* Sheet1 -> Sheet1, Sheet 5 -> 'Sheet 5', Sheet'7 -> 'Sheet''7'.
C7_QuoteSheetname ==
    pc = "quote_sheetname" =>
        /\ (Len(sheetname) > 0 /\ sheetname[1] = ChApostrophe) => str_out = sheetname
        /\ ~ (Len(sheetname) > 0 /\ sheetname[1] = ChApostrophe) =>
            /\ NeedsQuotes(sheetname) =>
                /\ Len(str_out) >= 2
                /\ str_out[1] = ChApostrophe
                /\ str_out[Len(str_out)] = ChApostrophe
                /\ IsDoubled(SubSeq(str_out, 2, Len(str_out) - 1), sheetname)
            /\ ~ NeedsQuotes(sheetname) => str_out = sheetname
        /\ sheetname = << 83, 104, 101, 101, 116, 49 >>
             => str_out = << 83, 104, 101, 101, 116, 49 >>
        /\ sheetname = << 83, 104, 101, 101, 116, 32, 53 >>
             => str_out = << 39, 83, 104, 101, 101, 116, 32, 53, 39 >>
        /\ sheetname = << 83, 104, 101, 101, 116, 39, 55 >>
             => str_out = << 39, 83, 104, 101, 101, 116, 39, 39, 55, 39 >>

C7_Witness ==
    /\ pc = "quote_sheetname"
    /\ sheetname = << 97, 39, 39, 32 >>
    /\ str_out = << 39, 97, 39, 39, 39, 39, 32, 39 >>

ErrorVariants ==
    {"SheetnameCannotBeBlank", "SheetnameLengthExceeded",
     "SheetnameContainsInvalidCharacter", "SheetnameStartsOrEndsWithApostrophe"}

HasInvalidChar(s) == \E i \in 1 .. Len(s) : s[i] \in InvalidChars

HasEdgeApostrophe(s) ==
    Len(s) > 0 /\ (s[1] = ChApostrophe \/ s[Len(s)] = ChApostrophe)

\* C8: validate_sheetname returns Ok exactly when the name is not empty, has
\* at most 31 characters (characters, not bytes), contains none of
\* * ? : [ ] \ / and neither starts nor ends with an apostrophe; otherwise it
\* returns one of the four Sheetname errors.
C8_ValidateSheetname ==
    pc = "validate_sheetname" =>
        /\ err_out.variant = "Ok" <=>
             /\ Len(sheetname) >= 1
             /\ Len(sheetname) <= 31
             /\ ~ HasInvalidChar(sheetname)
             /\ ~ HasEdgeApostrophe(sheetname)
        /\ err_out.variant # "Ok" => err_out.variant \in ErrorVariants

\* 31 characters of two bytes each are accepted.
C8_Witness ==
    /\ pc = "validate_sheetname"
    /\ Len(sheetname) = 31 /\ \A i \in 1 .. 31 : sheetname[i] = 233
    /\ err_out.variant = "Ok"

\* C9: validate_sheetname reports the first failing check in the order
\* blank, longer than 31, forbidden character, apostrophe at either end,
\* and the error carries the label it was given.
C9_FirstFailingCheck ==
    pc = "validate_sheetname" =>
        /\ Len(sheetname) = 0 => err_out.variant = "SheetnameCannotBeBlank"
        /\ Len(sheetname) > 31 => err_out.variant = "SheetnameLengthExceeded"
        /\ (Len(sheetname) \in 1 .. 31 /\ HasInvalidChar(sheetname))
             => err_out.variant = "SheetnameContainsInvalidCharacter"
        /\ (Len(sheetname) \in 1 .. 31 /\ ~ HasInvalidChar(sheetname)
              /\ HasEdgeApostrophe(sheetname))
             => err_out.variant = "SheetnameStartsOrEndsWithApostrophe"
        /\ err_out.variant \in ErrorVariants => err_out.message = message

\* 32 characters, a forbidden one first and an apostrophe last.
C9_Witness ==
    /\ pc = "validate_sheetname"
    /\ Len(sheetname) = 32 /\ sheetname[1] = 42 /\ sheetname[32] = ChApostrophe
    /\ err_out = [variant |-> "SheetnameLengthExceeded", message |-> << 119, 98 >>]

\* At most 31 characters, a forbidden one and an apostrophe at the end.
C9_WitnessInvalidFirst ==
    /\ pc = "validate_sheetname"
    /\ sheetname = << 39, 97, 42 >>
    /\ err_out.variant = "SheetnameContainsInvalidCharacter"

(***************************************************************************)
(* The password hash as a state machine.                                   *)
(***************************************************************************)
\* '0', 'a', DEL, 'e' with an acute accent (two bytes) and the euro sign
\* (three bytes)
PwChars == {48, 97, 127, 233, 8364}

\* "password", "This is a longer phrase", "0123456789012345678901234567890"
TestPasswords ==
    { << 112, 97, 115, 115, 119, 111, 114, 100 >>,
      << 84, 104, 105, 115, 32, 105, 115, 32, 97, 32, 108, 111, 110, 103, 101,
         114, 32, 112, 104, 114, 97, 115, 101 >>,
      [i \in 1 .. 31 |-> 48 + ((i - 1) % 10)] }

Passwords ==
    StringsUpTo(PwChars, MaxPwLen)
    \cup UNION { { Pad(ch, k) : k \in { n \in MaxPwLen + 1 .. MaxPwBytes :
                                           n * Utf8Len(ch) <= MaxPwBytes } } :
                  ch \in PwChars }
    \cup TestPasswords

InitHash ==
    /\ overflow_checks \in BOOLEAN
    /\ pc = "hash"
    /\ password \in Passwords
    /\ col_num = 0 /\ row_num = 0 /\ last_col = 0 /\ last_row = 0
    /\ column = << >> /\ sheetname = << >> /\ message = << >> /\ string = << >>
    /\ NoResult

HashPassword ==
    /\ pc = "hash"
    /\ num_out' = hash_password(password)
    /\ pc' = "hash_password"
    /\ UNCHANGED <<overflow_checks, col_num, row_num, last_col, last_row, column,
                   sheetname, message, password, string,
                   str_out, err_out>>

NextHash == HashPassword

SpecHash == InitHash /\ [][NextHash]_vars

\* The exclusive or of two natural numbers: of their last bits, and of the
\* rest.
RECURSIVE RefXor(_, _)
RefXor(a, b) ==
    IF a = 0 THEN b ELSE IF b = 0 THEN a
    ELSE ((a + b) % 2) + 2 * RefXor(a \div 2, b \div 2)

\* h rotated left by one bit within 15 bits.
RefRotate(h) == ((2 * h) % 32768) + ((h \div 16384) % 2)

\* The bytes of the password: what each character contributes in UTF-8.
RECURSIVE RefBytes(_, _)
RefBytes(pw, i) ==
    IF i > Len(pw) THEN << >>
    ELSE LET ch == pw[i]
         IN (CASE ch < 128 -> << ch >>
               [] ch >= 128 /\ ch < 2048 -> << 192 + (ch \div 64), 128 + (ch % 64) >>
               [] OTHER -> << 224 + (ch \div 4096), 128 + ((ch \div 64) % 64),
                              128 + (ch % 64) >>)
            \o RefBytes(pw, i + 1)

\* One step of the reference: rotate, then XOR the byte in.
RefStep(h, byte) == IF h >= 0 THEN RefXor(RefRotate(h), byte) ELSE h

\* The running hash after the bytes n, n+1, .., last have been taken, last first.
RECURSIVE RefRunning(_, _)
RefRunning(bytes, n) ==
    IF n > Len(bytes) THEN 0
    ELSE RefStep(RefRunning(bytes, n + 1), bytes[n])

RefHashOfBytes(bytes) ==
    IF Len(bytes) = 0 THEN 0
    ELSE RefXor(RefXor(RefRotate(RefRunning(bytes, 1)), Len(bytes)), 52811)

RefHash(pw) == RefHashOfBytes(RefBytes(pw, 1))

\* C10: the hash of the empty password is 0; the hash of any other password
\* is the reference: from 0, for each byte from last to first rotate left by
\* one within 15 bits and XOR the byte in, then rotate once more, XOR the
\* byte length in and XOR 0xCE4B in; "password" -> 0x83AF, "0" -> 0xCE2A.
C10_HashPassword ==
    pc = "hash_password" =>
        /\ password = << >> => num_out = 0
        /\ password # << >> => num_out = RefHash(password)
        /\ password = << 112, 97, 115, 115, 119, 111, 114, 100 >> => num_out = 33711
        /\ password = << 48 >> => num_out = 52778

C10_Witness ==
    /\ pc = "hash_password"
    /\ password = << 112, 97, 115, 115, 119, 111, 114, 100 >>
    /\ num_out = 33711

PixelChars == {32, 87, 105, 233, 8364}

\* Every ASCII character, and a few characters beyond ASCII.
SingleChars == (0 .. 127) \cup {128, 233, 8364, 65533, 128512}

\* "Hello", "ABC", "12345" and two 'e' with an acute accent
TestStrings ==
    { << 72, 101, 108, 108, 111 >>, << 65, 66, 67 >>,
      << 49, 50, 51, 52, 53 >>, << 233, 233 >> }

PixelStrings ==
    StringsUpTo(PixelChars, MaxPixelLen)
    \cup { << ch >> : ch \in SingleChars }
    \cup { Pad(ch, k) : ch \in PixelChars, k \in MaxPixelLen + 1 .. MaxPixelRun }
    \cup TestStrings

InitPixel ==
    /\ overflow_checks \in BOOLEAN
    /\ pc = "pixel"
    /\ string \in PixelStrings
    /\ col_num = 0 /\ row_num = 0 /\ last_col = 0 /\ last_row = 0
    /\ column = << >> /\ sheetname = << >> /\ message = << >> /\ password = << >>
    /\ NoResult

PixelWidth ==
    /\ pc = "pixel"
    /\ num_out' = pixel_width(string, overflow_checks)
    /\ pc' = "pixel_width"
    /\ UNCHANGED <<overflow_checks, col_num, row_num, last_col, last_row, column,
                   sheetname, message, password, string, str_out, err_out>>

NextPixel == PixelWidth

SpecPixel == InitPixel /\ [][NextPixel]_vars

\* The widths the tests expect of the characters ' ' (32) to '~' (126), in
\* that order.
TestedWidths ==
    << 3, 5, 6, 7, 7, 11, 10, 3, 5, 5, 7, 7, 4, 5, 4, 6, 7, 7, 7, 7, 7, 7,
    7, 7, 7, 7, 4, 4, 7, 7, 7, 7, 13, 9, 8, 8, 9, 7, 7, 9, 9, 4, 5, 8, 6,
    12, 10, 10, 8, 10, 8, 7, 7, 9, 9, 13, 8, 7, 7, 5, 6, 5, 7, 7, 4, 7, 8,
    6, 8, 8, 5, 7, 8, 4, 4, 7, 4, 12, 8, 8, 8, 8, 5, 6, 5, 8, 7, 11, 7, 7,
    6, 5, 7, 5, 7 >>

\* The width of a character: that of the table, 8 for any other character.
RefWidth(ch) == IF ch \in 32 .. 126 THEN TestedWidths[ch - 31] ELSE 8

RECURSIVE RefTotal(_)
RefTotal(s) == IF s = << >> THEN 0 ELSE RefWidth(Head(s)) + RefTotal(Tail(s))

\* C11: for every string whose total fits in 16 bits, pixel_width is the sum
\* of the table widths of its characters, 8 for a character not in the
\* table; " " -> 3, "Hello" -> 33, one accented 'e' -> 8, two -> 16, "" -> 0.
C11_PixelWidthSum ==
    (pc = "pixel_width" /\ RefTotal(string) < U16Modulus) =>
        /\ num_out = RefTotal(string)
        /\ string = << 32 >> => num_out = 3
        /\ string = << 72, 101, 108, 108, 111 >> => num_out = 33
        /\ string = << 233 >> => num_out = 8
        /\ string = << 233, 233 >> => num_out = 16
        /\ string = << >> => num_out = 0

C11_Witness ==
    pc = "pixel_width" /\ string = << 72, 101, 108, 108, 111 >> /\ num_out = 33

\* C14: every width lies between 3 and 13, so the width of a string of n
\* characters whose total fits in 16 bits lies between 3n and 13n, and the
\* width of a concatenation is the sum of the widths of its parts.
C14_PixelWidthBounds ==
    (pc = "pixel_width" /\ 13 * Len(string) < U16Modulus) =>
        /\ \A i \in 1 .. Len(string) :
             pixel_width(<< string[i] >>, overflow_checks) \in 3 .. 13
        /\ 3 * Len(string) <= num_out
        /\ num_out <= 13 * Len(string)
        /\ \A k \in 0 .. Len(string) :
             num_out = pixel_width(SubSeq(string, 1, k), overflow_checks)
                       + pixel_width(SubSeq(string, k + 1, Len(string)),
                                     overflow_checks)

C14_Witness ==
    pc = "pixel_width" /\ string = << 87, 32, 8364 >> /\ num_out = 24

(***************************************************************************)
(* The formatters over the whole column type.                              *)
(***************************************************************************)
TotalCols ==
    (0 .. TotalSpan) \cup {MaxCol}
    \cup (U16Modulus - 1 - TotalSpan .. U16Modulus - 1)

TotalRows == {0, MaxRow}

InitTotal ==
    /\ overflow_checks \in BOOLEAN
    /\ row_num \in TotalRows /\ col_num \in TotalCols
    /\ \/ pc \in {"number", "cell"} /\ last_row = 0 /\ last_col = 0
       \/ pc = "range" /\ last_row \in TotalRows /\ last_col \in TotalCols
    /\ column = << >> /\ sheetname = << >> /\ message = << >>
    /\ password = << >> /\ string = << >>
    /\ NoResult

NextTotal ==
    \/ ColumnNumberToName
    \/ RowColToCell
    \/ RowColToCellAbsolute
    \/ CellRange
    \/ CellRangeAbsolute

SpecTotal == InitTotal /\ [][NextTotal]_vars

\* C12: the cell and range formatters have no error condition: every column
\* of the 16-bit column type, up to and including 65535, yields a string,
\* with no overflow failure inside the function.
C12_FormattersTotal ==
    pc \in {"number_name", "row_col_to_cell", "row_col_to_cell_absolute",
            "cell_range", "cell_range_absolute"}
        => str_out # PanicStr

(***************************************************************************)
(* column_name_to_number on arbitrary strings.                             *)
(***************************************************************************)
\* An uppercase letter at each end of the alphabet, a lowercase letter and a
\* digit.
ColumnChars == {ChA, ChZ, 97, 49}

ColumnStrings == StringsUpTo(ColumnChars, MaxColumnLen)

InitName ==
    /\ overflow_checks \in BOOLEAN
    /\ pc = "name" /\ column \in ColumnStrings
    /\ col_num = 0 /\ row_num = 0 /\ last_col = 0 /\ last_row = 0
    /\ sheetname = << >> /\ message = << >> /\ password = << >> /\ string = << >>
    /\ NoResult

NextName == ColumnNameToNumber

SpecName == InitName /\ [][NextName]_vars

\* acc = acc*26 + (char - 'A' + 1) over the characters, in the integers.
RECURSIVE Accumulated(_)
Accumulated(name) ==
    IF name = << >> THEN 0
    ELSE Accumulated(SubSeq(name, 1, Len(name) - 1)) * 26
         + (name[Len(name)] - 65 + 1)

\* C13: column_name_to_number raises no error on any input: for every
\* string, the empty string, lowercase letters and digits included, it
\* returns the accumulated value minus 1 as a 16-bit number.
C13_NoErrorOnAnyInput ==
    pc = "name_number" =>
        /\ num_out # PanicNum
        /\ num_out = (Accumulated(column) - 1) % U16Modulus

(***************************************************************************)
(* quote_sheetname applied to its own result.                              *)
(***************************************************************************)
InitQuote ==
    /\ overflow_checks \in BOOLEAN
    /\ pc = "quote" /\ sheetname \in SheetNames
    /\ col_num = 0 /\ row_num = 0 /\ last_col = 0 /\ last_row = 0
    /\ column = << >> /\ message = << >> /\ password = << >> /\ string = << >>
    /\ NoResult

\* A call of quote_sheetname on the name the first call returned.
QuoteSheetnameAgain ==
    /\ pc = "quote_sheetname"
    /\ str_out' = quote_sheetname(str_out)
    /\ pc' = "quote_sheetname_quote_sheetname"
    /\ UNCHANGED <<overflow_checks, col_num, row_num, last_col, last_row, column,
                   sheetname, message, password, string,
                   num_out, err_out>>

NextQuote == QuoteSheetname \/ QuoteSheetnameAgain

SpecQuote == InitQuote /\ [][NextQuote]_vars

\* C15: quote_sheetname is idempotent: a second call on the result of the
\* first returns it unchanged, because that result either contains no space,
\* '!' or apostrophe, or starts with an apostrophe.
C15_QuoteIdempotent ==
    [][pc = "quote_sheetname" =>
          /\ str_out' = str_out
          /\ \/ ~ NeedsQuotes(str_out)
             \/ Len(str_out) > 0 /\ str_out[1] = ChApostrophe]_vars

C15_Witness ==
    /\ pc = "quote_sheetname_quote_sheetname"
    /\ sheetname = << 97, 39, 39, 32 >>
    /\ str_out = << 39, 97, 39, 39, 39, 39, 32, 39 >>

====
